---- MODULE Spec2Model ----
(***************************************************************************)
(* chinese-mainland-holidays: the date value type and its validation, the  *)
(* day-of-week algorithm, the override table and its lookup, the           *)
(* holiday_kind / is_holiday contract and the chrono adapters.             *)
(*                                                                         *)
(* The library is stateless; the state of the model is one call of the     *)
(* library: the operation called, its arguments, the HolidayDate the       *)
(* caller holds, the HolidayKind the call obtained and the value returned. *)
(***************************************************************************)
EXTENDS Integers, Sequences, FiniteSets, TLC

VARIABLES call, input, date, kind, ret

vars == <<call, input, date, kind, ret>>

---------------------------------------------------------------------------
(* Bounds of the model *)

\* from_ymd is tried on the years 0..SmallYears, on YearSpan years around each
\* century / range boundary, and on the last YearSpan+1 years of u16.
SmallYears == 8
YearSpan == 1
\* months 0..MaxMonthIn and days 0..MaxDayIn (and the largest u8) are tried
MaxMonthIn == 13
MaxDayIn == 32
\* chrono years are tried WrapSpan multiples of 2^16 around the u16 years
WrapSpan == 1
\* the pairs of dates compared by key span the years MAX_YEAR..MAX_YEAR+KeySpan
KeySpan == 1

---------------------------------------------------------------------------
(* Integer widths *)

U8 == 2^8
U16 == 2^16

(* Option<T>: None is the empty sequence, Some(x) the one-element sequence; *)
(* a panic (overflow check, failed assertion, unreachable!()) is a pair.    *)
None == <<>>
Some(x) == <<x>>
Panic == <<"panic", "panic">>

---------------------------------------------------------------------------
(* holidays.rs *)

MIN_YEAR == 2024
MAX_YEAR == 2024

\* the variants of enum HolidayKind (lib.rs)
HolidayKind ==
    {"RegularHoliday", "RegularWorkday",
     "G0101Holiday", "G0101Workday",
     "L0101Holiday", "L0101Workday",
     "S05Holiday", "S05Workday",
     "G0501Holiday", "G0501Workday",
     "L0505Holiday", "L0505Workday",
     "L0815Holiday", "L0815Workday",
     "G1001Holiday", "G1001Workday"}

HolidayDate(y, m, d) == [year |-> y, month |-> m, day |-> d]

\* HolidayDate::u32_value; the u32 sum of a u16 * 366, a u8 * 31 and a u8 is
\* at most 65535 * 366 + 255 * 31 + 255 and never wraps
u32_value(self) ==
    (self.year * 366) + (self.month * 31) + self.day

\* the literals of the record! invocations, in the order of the source
HOLIDAY_RECORDS_unsorted ==
    << <<2024, 1, 1, "G0101Holiday">>,
       <<2024, 2, 4, "L0101Workday">>,
       <<2024, 2, 12, "L0101Holiday">>,
       <<2024, 2, 13, "L0101Holiday">>,
       <<2024, 2, 14, "L0101Holiday">>,
       <<2024, 2, 15, "L0101Holiday">>,
       <<2024, 2, 16, "L0101Holiday">>,
       <<2024, 2, 18, "L0101Workday">>,
       <<2024, 4, 4, "S05Holiday">>,
       <<2024, 4, 5, "S05Holiday">>,
       <<2024, 4, 7, "S05Workday">>,
       <<2024, 4, 28, "G0501Workday">>,
       <<2024, 5, 1, "G0501Holiday">>,
       <<2024, 5, 2, "G0501Holiday">>,
       <<2024, 5, 3, "G0501Holiday">>,
       <<2024, 5, 11, "G0501Workday">>,
       <<2024, 6, 10, "L0505Holiday">>,
       <<2024, 9, 16, "L0815Holiday">>,
       <<2024, 9, 14, "L0815Workday">>,
       <<2024, 9, 17, "L0815Holiday">>,
       <<2024, 9, 29, "G1001Workday">>,
       <<2024, 10, 1, "G1001Holiday">>,
       <<2024, 10, 2, "G1001Holiday">>,
       <<2024, 10, 3, "G1001Holiday">>,
       <<2024, 10, 4, "G1001Holiday">>,
       <<2024, 10, 7, "G1001Holiday">>,
       <<2024, 10, 12, "G1001Workday">> >>
HOLIDAY_RECORDS_swapped_kind ==
    << <<2024, 1, 1, "G0101Holiday">>,
       <<2024, 2, 4, "L0101Workday">>,
       <<2024, 2, 12, "L0101Holiday">>,
       <<2024, 2, 13, "L0101Holiday">>,
       <<2024, 2, 14, "L0101Holiday">>,
       <<2024, 2, 15, "L0101Holiday">>,
       <<2024, 2, 16, "L0101Holiday">>,
       <<2024, 2, 18, "L0101Workday">>,
       <<2024, 4, 4, "S05Holiday">>,
       <<2024, 4, 5, "S05Holiday">>,
       <<2024, 4, 7, "S05Workday">>,
       <<2024, 4, 28, "G0501Workday">>,
       <<2024, 5, 1, "G0501Holiday">>,
       <<2024, 5, 2, "G0501Holiday">>,
       <<2024, 5, 3, "G0501Holiday">>,
       <<2024, 5, 11, "G0501Workday">>,
       <<2024, 6, 10, "L0505Holiday">>,
       <<2024, 9, 14, "L0815Holiday">>,
       <<2024, 9, 16, "L0815Holiday">>,
       <<2024, 9, 17, "L0815Holiday">>,
       <<2024, 9, 29, "G1001Workday">>,
       <<2024, 10, 1, "G1001Holiday">>,
       <<2024, 10, 2, "G1001Holiday">>,
       <<2024, 10, 3, "G1001Holiday">>,
       <<2024, 10, 4, "G1001Holiday">>,
       <<2024, 10, 7, "G1001Holiday">>,
       <<2024, 10, 12, "G1001Workday">> >>
HOLIDAY_RECORDS ==
    << <<2024, 1, 1, "G0101Holiday">>,
       <<2024, 2, 4, "L0101Workday">>,
       <<2024, 2, 12, "L0101Holiday">>,
       <<2024, 2, 13, "L0101Holiday">>,
       <<2024, 2, 14, "L0101Holiday">>,
       <<2024, 2, 15, "L0101Holiday">>,
       <<2024, 2, 16, "L0101Holiday">>,
       <<2024, 2, 18, "L0101Workday">>,
       <<2024, 4, 4, "S05Holiday">>,
       <<2024, 4, 5, "S05Holiday">>,
       <<2024, 4, 7, "S05Workday">>,
       <<2024, 4, 28, "G0501Workday">>,
       <<2024, 5, 1, "G0501Holiday">>,
       <<2024, 5, 2, "G0501Holiday">>,
       <<2024, 5, 3, "G0501Holiday">>,
       <<2024, 5, 11, "G0501Workday">>,
       <<2024, 6, 10, "L0505Holiday">>,
       <<2024, 9, 14, "L0815Workday">>,
       <<2024, 9, 16, "L0815Holiday">>,
       <<2024, 9, 17, "L0815Holiday">>,
       <<2024, 9, 29, "G1001Workday">>,
       <<2024, 10, 1, "G1001Holiday">>,
       <<2024, 10, 2, "G1001Holiday">>,
       <<2024, 10, 3, "G1001Holiday">>,
       <<2024, 10, 4, "G1001Holiday">>,
       <<2024, 10, 7, "G1001Holiday">>,
       <<2024, 10, 12, "G1001Workday">> >>

\* the record! macro: (HolidayDate { year, month, day }.u32_value(), kind)
record(y, m, d, k) == <<u32_value(HolidayDate(y, m, d)), k>>

\* the table as the program holds it: (u32, HolidayKind) pairs
HOLIDAYS ==
    [i \in 1..Len(HOLIDAY_RECORDS) |->
        record(HOLIDAY_RECORDS[i][1], HOLIDAY_RECORDS[i][2],
               HOLIDAY_RECORDS[i][3], HOLIDAY_RECORDS[i][4])]

---------------------------------------------------------------------------
(* lib.rs *)

\* HolidayDate::from_ymd
from_ymd_no_leap_rule(year, month, day) ==
    IF year = 0 THEN None
    ELSE IF day = 0 THEN None
    ELSE IF month \in {1, 3, 5, 7, 8, 10, 12}
         THEN IF day > 31 THEN None ELSE Some(HolidayDate(year, month, day))
    ELSE IF month \in {4, 6, 9, 11}
         THEN IF day > 30 THEN None ELSE Some(HolidayDate(year, month, day))
    ELSE IF month = 2
         THEN IF day > 28 /\ ~(day = 29 /\ year % 4 = 0)
              THEN None ELSE Some(HolidayDate(year, month, day))
    ELSE None
from_ymd(year, month, day) ==
    IF year = 0 THEN None
    ELSE IF day = 0 THEN None
    ELSE IF month \in {1, 3, 5, 7, 8, 10, 12}
         THEN IF day > 31 THEN None ELSE Some(HolidayDate(year, month, day))
    ELSE IF month \in {4, 6, 9, 11}
         THEN IF day > 30 THEN None ELSE Some(HolidayDate(year, month, day))
    ELSE IF month = 2
         THEN IF day > 28
                 /\ ~(day = 29
                      /\ ((year % 4 = 0 /\ year % 100 # 0) \/ year % 400 = 0))
              THEN None ELSE Some(HolidayDate(year, month, day))
    ELSE None

\* the derived Ord of HolidayDate: lexicographic on (year, month, day)
cmp(a, b) ==
    IF a.year # b.year THEN (IF a.year < b.year THEN "Less" ELSE "Greater")
    ELSE IF a.month # b.month
         THEN (IF a.month < b.month THEN "Less" ELSE "Greater")
    ELSE IF a.day # b.day THEN (IF a.day < b.day THEN "Less" ELSE "Greater")
    ELSE "Equal"

\* day_of_week: the value the wrapping (release) arithmetic gives, and
\* whether some intermediate value left its width (a panic with overflow
\* checks on).  m, 13 * m - 1 and (13 * m - 1) / 5 + day are u8; y, c and
\* the sum are u16.
day_of_week_jan_feb_same_year(year, month, day) ==
    LET m0 == IF month > 2 THEN month - 2 ELSE month + 10
        y0 == year
        m == m0 % U8
        y1 == y0 % U16
        c == y1 \div 100
        y == y1 % 100
        p0 == 13 * m
        p == p0 % U8
        q0 == p - 1
        q == q0 % U8
        r0 == (q \div 5) + day
        r == r0 % U8
        s0 == r + y + (y \div 4) + (c \div 4) + 5 * c
        s == s0 % U16
    IN  [value |-> (s % 7) % U8,
         overflow |-> \/ m0 \notin 0..(U8 - 1)
                      \/ y0 \notin 0..(U16 - 1)
                      \/ p0 \notin 0..(U8 - 1)
                      \/ q0 \notin 0..(U8 - 1)
                      \/ r0 \notin 0..(U8 - 1)
                      \/ s0 \notin 0..(U16 - 1)]
day_of_week(year, month, day) ==
    LET m0 == IF month > 2 THEN month - 2 ELSE month + 10
        y0 == IF month > 2 THEN year ELSE year - 1
        m == m0 % U8
        y1 == y0 % U16
        c == y1 \div 100
        y == y1 % 100
        p0 == 13 * m
        p == p0 % U8
        q0 == p - 1
        q == q0 % U8
        r0 == (q \div 5) + day
        r == r0 % U8
        s0 == r + y + (y \div 4) + (c \div 4) + 5 * c
        s == s0 % U16
    IN  [value |-> (s % 7) % U8,
         overflow |-> \/ m0 \notin 0..(U8 - 1)
                      \/ y0 \notin 0..(U16 - 1)
                      \/ p0 \notin 0..(U8 - 1)
                      \/ q0 \notin 0..(U8 - 1)
                      \/ r0 \notin 0..(U8 - 1)
                      \/ s0 \notin 0..(U16 - 1)]

\* HOLIDAYS.binary_search_by_key(&key, |(v, _)| *v): Some(i) for Ok(i),
\* None for Err(_)
RECURSIVE binary_search_loop(_, _, _)
binary_search_loop(key, lo, hi) ==
    IF lo >= hi THEN None
    ELSE LET mid == lo + ((hi - lo) \div 2)
             v == HOLIDAYS[mid + 1][1]
         IN  IF v = key THEN Some(mid + 1)
             ELSE IF v < key THEN binary_search_loop(key, mid + 1, hi)
             ELSE binary_search_loop(key, lo, mid)

binary_search_by_key(key) == binary_search_loop(key, 0, Len(HOLIDAYS))

\* impl HolidayLike for HolidayDate: holiday_kind; checks says whether the
\* build has overflow checks on
holiday_kind_sunday_only(self, checks) ==
    IF self.year < MIN_YEAR \/ self.year > MAX_YEAR THEN None
    ELSE LET found == binary_search_by_key(u32_value(self))
             dow == day_of_week(self.year, self.month, self.day)
         IN  IF found # None THEN Some(HOLIDAYS[found[1]][2])
             ELSE IF dow.overflow /\ checks THEN Panic
             ELSE IF dow.value = 0 THEN Some("RegularHoliday")
             ELSE IF dow.value \in 1..6 THEN Some("RegularWorkday")
             ELSE Panic
holiday_kind_no_year_check(self, checks) ==
    LET found == binary_search_by_key(u32_value(self))
        dow == day_of_week(self.year, self.month, self.day)
    IN  IF found # None THEN Some(HOLIDAYS[found[1]][2])
        ELSE IF dow.overflow /\ checks THEN Panic
        ELSE IF dow.value \in {0, 6} THEN Some("RegularHoliday")
        ELSE IF dow.value \in 1..5 THEN Some("RegularWorkday")
        ELSE Panic
holiday_kind(self, checks) ==
    IF self.year < MIN_YEAR \/ self.year > MAX_YEAR THEN None
    ELSE LET found == binary_search_by_key(u32_value(self))
             dow == day_of_week(self.year, self.month, self.day)
         IN  IF found # None THEN Some(HOLIDAYS[found[1]][2])
             ELSE IF dow.overflow /\ checks THEN Panic
             ELSE IF dow.value \in {0, 6} THEN Some("RegularHoliday")
             ELSE IF dow.value \in 1..5 THEN Some("RegularWorkday")
             ELSE Panic

\* HolidayLike::is_holiday, given what self.holiday_kind() returned
is_holiday_by_suffix(k) ==
    IF k = None THEN None
    ELSE IF k = Panic THEN Panic
    ELSE IF k[1] \in {"G0101Holiday", "L0101Holiday", "S05Holiday",
                      "G0501Holiday", "L0505Holiday", "L0815Holiday",
                      "G1001Holiday"} THEN Some(TRUE)
    ELSE Some(FALSE)
is_holiday(k) ==
    IF k = None THEN None
    ELSE IF k = Panic THEN Panic
    ELSE IF k[1] \in {"RegularHoliday", "G0101Holiday", "L0101Holiday",
                      "S05Holiday", "G0501Holiday", "L0505Holiday",
                      "L0815Holiday", "G1001Holiday"} THEN Some(TRUE)
    ELSE IF k[1] \in {"RegularWorkday", "G0101Workday", "L0101Workday",
                      "S05Workday", "G0501Workday", "L0505Workday",
                      "L0815Workday", "G1001Workday"} THEN Some(FALSE)
    ELSE Panic

---------------------------------------------------------------------------
(* chrono.rs *)

\* chrono's proleptic Gregorian calendar, years of any sign
IsLeapYear(y) == (y % 4 = 0 /\ y % 100 # 0) \/ y % 400 = 0

DaysInMonth(y, m) ==
    IF m \in {1, 3, 5, 7, 8, 10, 12} THEN 31
    ELSE IF m \in {4, 6, 9, 11} THEN 30
    ELSE IF IsLeapYear(y) THEN 29 ELSE 28

NaiveDate(y, m, d) == [year |-> y, month |-> m, day |-> d]

\* the day after / before a NaiveDate
succ_opt(nd) ==
    IF nd.day < DaysInMonth(nd.year, nd.month)
    THEN NaiveDate(nd.year, nd.month, nd.day + 1)
    ELSE IF nd.month < 12 THEN NaiveDate(nd.year, nd.month + 1, 1)
    ELSE NaiveDate(nd.year + 1, 1, 1)

pred_opt(nd) ==
    IF nd.day > 1 THEN NaiveDate(nd.year, nd.month, nd.day - 1)
    ELSE IF nd.month > 1
         THEN NaiveDate(nd.year, nd.month - 1,
                        DaysInMonth(nd.year, nd.month - 1))
    ELSE NaiveDate(nd.year - 1, 12, 31)

\* a DateTime<Tz>: the UTC date and second of day of the instant, and the
\* offset of its zone in seconds east
DateTime(utc, secs, offset) == [utc |-> utc, secs |-> secs, offset |-> offset]

SecondsPerDay == 24 * 60 * 60

\* FixedOffset::east_opt(28800).unwrap()
tz == 28800

with_timezone(value, zone) == DateTime(value.utc, value.secs, zone)

\* DateTime::date_naive: the date of the local (offset-shifted) time
date_naive(value) ==
    LET local == value.secs + value.offset
    IN  IF local >= SecondsPerDay THEN succ_opt(value.utc)
        ELSE IF local < 0 THEN pred_opt(value.utc)
        ELSE value.utc

\* impl From<NaiveDate> for HolidayDate: i32 as u16, u32 as u8, u32 as u8
from_NaiveDate(value) ==
    HolidayDate(value.year % U16, value.month % U8, value.day % U8)

\* impl<Tz: TimeZone> From<DateTime<Tz>> for HolidayDate
from_DateTime(value) ==
    from_NaiveDate(date_naive(with_timezone(value, tz)))

---------------------------------------------------------------------------
(* The inputs tried *)

YearInputs ==
    (0..SmallYears)
    \cup UNION {(a - YearSpan)..(a + YearSpan) :
                    a \in {100, 400, 1600, 1900, 2000, 2100, 10000,
                          40000, MIN_YEAR, MAX_YEAR}}
    \cup ((U16 - 1 - YearSpan)..(U16 - 1))

MonthInputs == (0..MaxMonthIn) \cup {U8 - 1}

DayInputs == (0..MaxDayIn) \cup {U8 - 1}

\* the years chrono can represent
ChronoYearRange == (-262143)..262142

ChronoYears ==
    {y \in {k * U16 + b :
                k \in (-WrapSpan)..WrapSpan,
                b \in {0, 1, U16 - 1}
                      \cup ((MIN_YEAR - YearSpan)..(MAX_YEAR + YearSpan))} :
        y \in ChronoYearRange}

NaiveDates ==
    UNION {UNION {{NaiveDate(y, m, d) : d \in 1..DaysInMonth(y, m)} :
                      m \in 1..12} : y \in ChronoYears}

DateTimes ==
    {DateTime(nd, s, o) :
        nd \in NaiveDates, s \in {57599, 57600, 72000}, o \in {0, -18000}}

KeyDates ==
    UNION {UNION {{HolidayDate(y, m, d) : d \in 1..DaysInMonth(y, m)} :
                      m \in 1..12} : y \in MAX_YEAR..(MAX_YEAR + KeySpan)}

---------------------------------------------------------------------------
(* The calls *)

Init ==
    /\ call = "idle"
    /\ input = <<>>
    /\ date = None
    /\ kind = None
    /\ ret = None

\* HolidayDate::from_ymd(year, month, day)
FromYmd ==
    /\ call = "idle"
    /\ \E y \in YearInputs, m \in MonthInputs, d \in DayInputs :
          /\ input' = <<y, m, d>>
          /\ date' = from_ymd(y, m, d)
          /\ ret' = from_ymd(y, m, d)
    /\ call' = "from_ymd"
    /\ kind' = None

\* HolidayDate::from(NaiveDate)
FromNaiveDate ==
    /\ call = "idle"
    /\ \E nd \in NaiveDates :
          /\ input' = <<nd>>
          /\ date' = Some(from_NaiveDate(nd))
          /\ ret' = Some(from_NaiveDate(nd))
    /\ call' = "from_NaiveDate"
    /\ kind' = None

\* HolidayDate::from(DateTime<Tz>)
FromDateTime ==
    /\ call = "idle"
    /\ \E dt \in DateTimes :
          /\ input' = <<dt>>
          /\ date' = Some(from_DateTime(dt))
          /\ ret' = Some(from_DateTime(dt))
    /\ call' = "from_DateTime"
    /\ kind' = None

\* self.u32_value() on the HolidayDate held
U32Value ==
    /\ date # None
    /\ call' = "u32_value"
    /\ input' = <<>>
    /\ ret' = Some(u32_value(date[1]))
    /\ kind' = None
    /\ UNCHANGED date

\* day_of_week(self.year, self.month, self.day) on a date from_ymd accepts
DayOfWeek ==
    /\ date # None
    /\ from_ymd(date[1].year, date[1].month, date[1].day) # None
    /\ \E checks \in BOOLEAN :
          LET dow == day_of_week(date[1].year, date[1].month, date[1].day)
          IN  ret' = IF dow.overflow /\ checks THEN Panic ELSE Some(dow.value)
    /\ call' = "day_of_week"
    /\ input' = <<>>
    /\ kind' = None
    /\ UNCHANGED date

\* self.holiday_kind() on the HolidayDate held
HolidayKindCall ==
    /\ date # None
    /\ \E checks \in BOOLEAN :
          /\ kind' = holiday_kind(date[1], checks)
          /\ ret' = holiday_kind(date[1], checks)
    /\ call' = "holiday_kind"
    /\ input' = <<>>
    /\ UNCHANGED date

\* self.is_holiday() on the HolidayDate held
IsHolidayCall ==
    /\ date # None
    /\ \E checks \in BOOLEAN :
          /\ kind' = holiday_kind(date[1], checks)
          /\ ret' = is_holiday(holiday_kind(date[1], checks))
    /\ call' = "is_holiday"
    /\ input' = <<>>
    /\ UNCHANGED date

\* the default is_holiday of any implementor of HolidayLike, whose
\* holiday_kind returns k
TraitIsHoliday ==
    /\ call = "idle"
    /\ \E k \in {None} \cup {Some(x) : x \in HolidayKind} :
          /\ kind' = k
          /\ ret' = is_holiday(k)
    /\ call' = "HolidayLike::is_holiday"
    /\ input' = <<>>
    /\ date' = None

\* impl HolidayLike for NaiveDate: holiday_kind
NaiveDateHolidayKind ==
    /\ call = "idle"
    /\ \E nd \in NaiveDates, checks \in BOOLEAN :
          /\ input' = <<nd>>
          /\ date' = Some(from_NaiveDate(nd))
          /\ kind' = holiday_kind(from_NaiveDate(nd), checks)
          /\ ret' = holiday_kind(from_NaiveDate(nd), checks)
    /\ call' = "NaiveDate::holiday_kind"

\* impl HolidayLike for NaiveDate: is_holiday
NaiveDateIsHoliday ==
    /\ call = "idle"
    /\ \E nd \in NaiveDates, checks \in BOOLEAN :
          /\ input' = <<nd>>
          /\ date' = Some(from_NaiveDate(nd))
          /\ kind' = holiday_kind(from_NaiveDate(nd), checks)
          /\ ret' = is_holiday(holiday_kind(from_NaiveDate(nd), checks))
    /\ call' = "NaiveDate::is_holiday"

\* test_holidays: the assertions before the loop; input is the index of the
\* next entry, ret the value of prev
TestHolidaysStart ==
    /\ call = "idle"
    /\ call' = "test_holidays"
    /\ input' = <<1>>
    /\ date' = None
    /\ kind' = None
    /\ ret' = IF /\ MIN_YEAR > 0 /\ MIN_YEAR <= MAX_YEAR
                 /\ Len(HOLIDAYS) # 0
                 /\ MIN_YEAR * 366 < HOLIDAYS[1][1]
                 /\ HOLIDAYS[1][1] < ((MIN_YEAR + 1) % U16) * 366
                 /\ MAX_YEAR * 366 < HOLIDAYS[Len(HOLIDAYS)][1]
                 /\ HOLIDAYS[Len(HOLIDAYS)][1] < ((MAX_YEAR + 1) % U16) * 366
              THEN Some(0) ELSE Panic

\* test_holidays: one iteration of the loop over HOLIDAYS
TestHolidaysStep ==
    /\ call = "test_holidays"
    /\ ret # Panic
    /\ input[1] <= Len(HOLIDAYS)
    /\ LET v == HOLIDAYS[input[1]][1]
       IN  IF ret[1] < v
           THEN /\ ret' = Some(v)
                /\ input' = <<input[1] + 1>>
           ELSE /\ ret' = Panic
                /\ UNCHANGED input
    /\ UNCHANGED <<call, date, kind>>

Next ==
    \/ FromYmd
    \/ FromNaiveDate
    \/ FromDateTime
    \/ U32Value
    \/ DayOfWeek
    \/ HolidayKindCall
    \/ IsHolidayCall
    \/ TraitIsHoliday
    \/ NaiveDateHolidayKind
    \/ NaiveDateIsHoliday
    \/ TestHolidaysStart
    \/ TestHolidaysStep

Spec == Init /\ [][Next]_vars

\* two HolidayDates compared by the derived Ord and by their keys
KeyCompare ==
    /\ call = "idle"
    /\ \E a \in KeyDates, b \in KeyDates :
          /\ input' = <<a, b>>
          /\ ret' = <<cmp(a, b), u32_value(a), u32_value(b)>>
    /\ call' = "cmp"
    /\ date' = None
    /\ kind' = None

NextKey == KeyCompare

SpecKey == Init /\ [][NextKey]_vars

---------------------------------------------------------------------------
(* The calendar the claims are stated against *)

\* the length of a month of the proleptic Gregorian calendar
MonthLength(y, m) ==
    CASE m \in {1, 3, 5, 7, 8, 10, 12} -> 31
      [] m \in {4, 6, 9, 11} -> 30
      [] m = 2 -> IF (y % 4 = 0 /\ y % 100 # 0) \/ y % 400 = 0 THEN 29 ELSE 28
      [] OTHER -> 0

\* the days of the year before the first of month m
DaysBeforeMonth(y, m) ==
    LET cum == <<0, 31, 59, 90, 120, 151, 181, 212, 243, 273, 304, 334>>
    IN  cum[m] + (IF m > 2 /\ MonthLength(y, 2) = 29 THEN 1 ELSE 0)

\* the number of the day, 0001-01-01 (a Monday) being day 1
DaysFromCE(d) ==
    365 * (d.year - 1) + ((d.year - 1) \div 4) - ((d.year - 1) \div 100)
        + ((d.year - 1) \div 400) + DaysBeforeMonth(d.year, d.month) + d.day

\* the day of week, 0 = Sunday .. 6 = Saturday
TrueDayOfWeek(d) == DaysFromCE(d) % 7

IsCalendarDate(d) ==
    /\ d.month \in 1..12
    /\ d.day \in 1..MonthLength(d.year, d.month)

\* the dates from_ymd accepts, as the claims describe them
IsAccepted(d) == d.year \in 1..(U16 - 1) /\ IsCalendarDate(d)

InRange(d) == d.year >= MIN_YEAR /\ d.year <= MAX_YEAR

\* the kinds recorded for exactly this (year, month, day)
RecordedKinds(d) ==
    {HOLIDAY_RECORDS[i][4] :
        i \in {j \in 1..Len(HOLIDAY_RECORDS) :
                /\ HOLIDAY_RECORDS[j][1] = d.year
                /\ HOLIDAY_RECORDS[j][2] = d.month
                /\ HOLIDAY_RECORDS[j][3] = d.day}}

FestivalHolidays ==
    {"G0101Holiday", "L0101Holiday", "S05Holiday", "G0501Holiday",
     "L0505Holiday", "L0815Holiday", "G1001Holiday"}

FestivalWorkdays ==
    {"G0101Workday", "L0101Workday", "S05Workday", "G0501Workday",
     "L0505Workday", "L0815Workday", "G1001Workday"}

HolidayKindCalled == call = "holiday_kind" /\ date # None

---------------------------------------------------------------------------
(* The claims *)

\* C1: for every date from_ymd accepts with year in [MIN_YEAR, MAX_YEAR],
\* holiday_kind returns the kind recorded in HOLIDAYS for exactly that
\* (year, month, day) when there is one, whatever the day of week, and
\* otherwise RegularHoliday on a Saturday or Sunday and RegularWorkday from
\* Monday to Friday; 2024-02-04 gives L0101Workday, 2024-09-14 L0815Workday
\* and 2024-10-12 G1001Workday.
C1_RecordedKindElseWeekdayDefault ==
    (HolidayKindCalled /\ IsAccepted(date[1]) /\ InRange(date[1])) =>
        /\ IF RecordedKinds(date[1]) # {}
           THEN RecordedKinds(date[1]) = {ret[1]} /\ Len(ret) = 1
           ELSE IF TrueDayOfWeek(date[1]) \in {0, 6}
                THEN ret = Some("RegularHoliday")
                ELSE ret = Some("RegularWorkday")
        /\ date[1] = HolidayDate(2024, 2, 4) => ret = Some("L0101Workday")
        /\ date[1] = HolidayDate(2024, 9, 14) => ret = Some("L0815Workday")
        /\ date[1] = HolidayDate(2024, 10, 12) => ret = Some("G1001Workday")

C1_Witness ==
    /\ HolidayKindCalled
    /\ date[1] = HolidayDate(2024, 9, 14)
    /\ TrueDayOfWeek(date[1]) = 6
    /\ ret = Some("L0815Workday")

\* C2: holiday_kind of a HolidayDate returns None exactly when the year is
\* below MIN_YEAR or above MAX_YEAR; a date with year in range gets one
\* HolidayKind variant, never None and never a panic.
C2_NoneIffYearOutOfRange ==
    HolidayKindCalled =>
        /\ ret = None <=> ~InRange(date[1])
        /\ InRange(date[1]) =>
              /\ ret # Panic
              /\ Len(ret) = 1
              /\ ret[1] \in HolidayKind

C2_Witness ==
    /\ HolidayKindCalled
    /\ date[1] = HolidayDate(2023, 10, 1)
    /\ ret = None

\* C3: from_ymd(year, month, day) returns Some, holding exactly the given
\* fields, if and only if year >= 1, month is in 1..12 and day is in 1..L,
\* L the length of the month in that year; otherwise None, never a panic.
C3_FromYmdAcceptsExactlyCalendarDates ==
    call = "from_ymd" =>
        LET d == HolidayDate(input[1], input[2], input[3])
        IN  IF d.year >= 1 /\ d.month \in 1..12
               /\ d.day \in 1..MonthLength(d.year, d.month)
            THEN ret = Some(d)
            ELSE ret = None

C3_Witness ==
    /\ call = "from_ymd"
    /\ input = <<1900, 2, 29>>
    /\ ret = None

\* C4: is_holiday is None exactly when holiday_kind is None; otherwise it is
\* Some(true) for RegularHoliday and the seven festival *Holiday kinds and
\* Some(false) for RegularWorkday and the seven festival *Workday kinds.
C4_IsHolidayMapsEveryKind ==
    call \in {"is_holiday", "HolidayLike::is_holiday", "NaiveDate::is_holiday"}
    =>  /\ ret = None <=> kind = None
        /\ kind # None =>
              /\ Len(kind) = 1
              /\ kind[1] \in {"RegularHoliday"} \cup FestivalHolidays
                    => ret = Some(TRUE)
              /\ kind[1] \in {"RegularWorkday"} \cup FestivalWorkdays
                    => ret = Some(FALSE)
              /\ ret \in {Some(TRUE), Some(FALSE)}

C4_Witness ==
    /\ call = "HolidayLike::is_holiday"
    /\ kind = Some("RegularHoliday")
    /\ ret = Some(TRUE)

\* C5: for every chrono NaiveDate whose year is less than MIN_YEAR or
\* greater than MAX_YEAR, holiday_kind and is_holiday called on that
\* NaiveDate return None.
C5_NaiveDateOutOfRangeIsNone ==
    (/\ call \in {"NaiveDate::holiday_kind", "NaiveDate::is_holiday"}
     /\ (input[1].year < MIN_YEAR \/ input[1].year > MAX_YEAR))
    => ret = None

\* C6: converting a DateTime to HolidayDate yields the civil (year, month,
\* day) of its instant at UTC+8, whatever the zone of the value; an instant
\* at or after 16:00:00 UTC converts to the day after its UTC date.
C6_DateTimeConvertsToCivilDateAtUtc8 ==
    call = "from_DateTime" =>
        LET dt == input[1]
            civil == DaysFromCE(dt.utc) + ((dt.secs + 28800) \div SecondsPerDay)
        IN  /\ IsCalendarDate(date[1])
            /\ DaysFromCE(date[1]) = civil
            /\ dt.secs >= 16 * 3600
                  => DaysFromCE(date[1]) = DaysFromCE(dt.utc) + 1

\* C7: for every date from_ymd accepts, day_of_week returns the true day of
\* week in 0..6 (0 = Sunday) with no intermediate value leaving its width,
\* so holiday_kind never reaches its unreachable arm; (2024,2,29) gives 4
\* and (2024,10,1) gives 2.
C7_DayOfWeekIsTrueDayOfWeek ==
    /\ call = "day_of_week" =>
          /\ ret # Panic
          /\ Len(ret) = 1
          /\ ret[1] \in 0..6
          /\ ret[1] = TrueDayOfWeek(date[1])
          /\ date[1] = HolidayDate(2024, 2, 29) => ret = Some(4)
          /\ date[1] = HolidayDate(2024, 10, 1) => ret = Some(2)
    /\ (HolidayKindCalled /\ IsAccepted(date[1])) => ret # Panic

C7_Witness ==
    /\ call = "day_of_week"
    /\ date[1] = HolidayDate(2024, 2, 29)
    /\ ret = Some(4)

\* C8: for any two dates d1, d2 that from_ymd accepts, d1 < d2 in
\* (year, month, day) order if and only if u32_value(d1) < u32_value(d2).
C8_KeyStrictlyMonotonic ==
    call = "cmp" => (ret[1] = "Less" <=> ret[2] < ret[3])

\* C9: HOLIDAYS is non-empty with strictly increasing keys,
\* 0 < MIN_YEAR <= MAX_YEAR, every entry is a calendar date with year in
\* [MIN_YEAR, MAX_YEAR], the first key lies strictly between MIN_YEAR*366
\* and (MIN_YEAR+1)*366 and the last between MAX_YEAR*366 and
\* (MAX_YEAR+1)*366: test_holidays passes every assertion.
C9_TableSortedAndInRange ==
    call = "test_holidays" =>
        /\ ret # Panic
        /\ Len(HOLIDAYS) > 0
        /\ 0 < MIN_YEAR /\ MIN_YEAR <= MAX_YEAR
        /\ MIN_YEAR * 366 < HOLIDAYS[1][1]
        /\ HOLIDAYS[1][1] < (MIN_YEAR + 1) * 366
        /\ MAX_YEAR * 366 < HOLIDAYS[Len(HOLIDAYS)][1]
        /\ HOLIDAYS[Len(HOLIDAYS)][1] < (MAX_YEAR + 1) * 366
        /\ \A i \in 1..(input[1] - 1) :
              LET r == HOLIDAY_RECORDS[i]
              IN  /\ IsAccepted(HolidayDate(r[1], r[2], r[3]))
                  /\ InRange(HolidayDate(r[1], r[2], r[3]))
                  /\ HOLIDAYS[i][1] = r[1] * 366 + r[2] * 31 + r[3]
                  /\ i > 1 => HOLIDAYS[i - 1][1] < HOLIDAYS[i][1]
                  /\ HOLIDAYS[i][1] <= ret[1]

C9_Witness ==
    /\ call = "test_holidays"
    /\ input = <<Len(HOLIDAYS) + 1>>
    /\ Len(HOLIDAYS) = 27
    /\ ret = Some(HOLIDAYS[27][1])

\* C10: every entry of HOLIDAYS with a festival *Holiday kind is a Monday to
\* Friday, every entry with a festival *Workday kind a Saturday or Sunday,
\* no entry carries RegularHoliday or RegularWorkday; so for an in-range
\* date holiday_kind returns a *Workday festival kind or RegularHoliday only
\* on Saturdays and Sundays, a festival *Holiday kind or RegularWorkday only
\* from Monday to Friday.
C10_KindsAgreeWithDayOfWeek ==
    (HolidayKindCalled /\ IsAccepted(date[1]) /\ InRange(date[1])) =>
        /\ Len(ret) = 1
        /\ ret[1] \in FestivalWorkdays \cup {"RegularHoliday"}
              => TrueDayOfWeek(date[1]) \in {0, 6}
        /\ ret[1] \in FestivalHolidays \cup {"RegularWorkday"}
              => TrueDayOfWeek(date[1]) \in 1..5
        /\ RecordedKinds(date[1]) # {}
              => ret[1] \in FestivalHolidays \cup FestivalWorkdays
        /\ \A i \in 1..Len(HOLIDAYS) :
              HOLIDAYS[i][2] \in FestivalHolidays \cup FestivalWorkdays

C10_Witness ==
    /\ HolidayKindCalled
    /\ date[1] = HolidayDate(2024, 5, 11)
    /\ TrueDayOfWeek(date[1]) = 6
    /\ ret = Some("G0501Workday")

====
